---- MODULE Spec2Model ----
(***************************************************************************)
(* dataplotlib: the Plotter handle (src/src/plotter.rs) and the PlotGUI    *)
(* driver thread with its windows (src/src/plot.rs).                       *)
(*                                                                         *)
(* A "slot" is one place of the calling program that holds a Plotter (a    *)
(* variable into which the result of Plotter::new is stored and which is   *)
(* dropped later).  thr maps each slot to the caller thread that uses it:  *)
(* calls made by one thread never overlap, calls made by different threads *)
(* interleave at every access of shared state (the atomic flag, the queue  *)
(* mutex, the thread handle).                                              *)
(*                                                                         *)
(* f64 values are modelled by integers; NaN is a value of its own.         *)
(*                                                                         *)
(* SpecUnit runs Plot::new2d and Window::draw on one window outside the    *)
(* driver thread, for every request of a bounded set: the bounds resolver  *)
(* and draw are checked there as functions of their arguments.             *)
(***************************************************************************)
EXTENDS Integers, Sequences, FiniteSets, TLC

\* ------------------------------------------------------------------ bounds
\* Render tasks the main thread pushes through one Plotter.
MaxPush == 2
\* Input events pending in a driver's event pump.
MaxEvents == 1

Slots == {"a", "b"}
Threads == {"main", "other"}
\* the thread of a slot the program does not use
Nobody == "nobody"
WinIds == 1..MaxPush

\* Option<T>: None is the empty tuple, Some(v) the tuple holding v.
None == <<>>
Some(v) == <<v>>
\* An f64 that may be NaN (0. / 0.): NaN, or F(v) for the number v.
NaN == <<>>
F(v) == <<v>>

\* ------------------------------------------------------ plot requests
\* PlotBuilder2D values handed to plot2d: pvs (each an XyColor with a colour
\* and its points, or another PlotVals2D variant) and the optional bounds.
XyColor(col, xy) == [kind |-> "XyColor", col |-> col, xy |-> xy]
OtherVals == [kind |-> "Other", col |-> "none", xy |-> <<>>]

PlotBuilder2D(pvs, max_x, max_y, min_x, min_y) ==
    [pvs |-> pvs, max_x |-> max_x, max_y |-> max_y, min_x |-> min_x, min_y |-> min_y]

\* one series, no override
ReqLine == PlotBuilder2D(<<XyColor("red", <<<<0, 0>>, <<1, 1>>, <<2, 0>>>>)>>,
                         None, None, None, None)
\* two series of different ranges, one ignored variant, max_y overridden
ReqTwo == PlotBuilder2D(<<XyColor("red", <<<<0, 1>>, <<1, 2>>>>), OtherVals,
                          XyColor("blue", <<<<2, -1>>, <<3, 0>>>>)>>,
                        None, Some(5), None, None)
\* a series without points
ReqEmpty == PlotBuilder2D(<<XyColor("red", <<>>)>>, None, None, None, None)

Requests == {ReqLine, ReqTwo, ReqEmpty}

\* ------------------------------------------------------------ GUITask
PlotTask(n, plot_builder) == [kind |-> "PlotTask", n |-> n, plot_builder |-> plot_builder]
Terminate(n) == [kind |-> "Terminate", n |-> n]
NoTask == [kind |-> "none"]

VARIABLES
    GUI_INITIALISED, \* the static AtomicBool
    thr,             \* slot -> caller thread using it
    quota,           \* thread -> number of plot2d calls it makes on each of its Plotters
    pc,              \* slot -> position of the caller in new / drop
    result,          \* slot -> what the last Plotter::new of the slot returned
    task_queue,      \* slot -> contents of the VecDeque allocated by the slot's new()
    lock,            \* slot -> holder of that queue's mutex ("free" or "gui")
    poisoned,        \* slot -> the mutex was held by a thread that panicked
    pushes,          \* slot -> number of tasks pushed to the queue so far
    popped,          \* slot -> kind and number of the tasks popped, in pop order
    gpc,             \* slot -> position of the slot's driver thread
    captured,        \* slot -> the queue captured by the driver thread's closure
    windows,         \* slot -> plot_gui.windows, a map id -> Window
    cur,             \* slot -> the task the driver is handling
    brk,             \* slot -> the statement through which the driver left 'main
    first,           \* slot -> the driver is in its first cycle
    events,          \* slot -> input events pending in the driver's event pump
    renders,         \* slot -> Render tasks pushed through the slot's Plotter
    drawn,           \* slot -> window id -> draw() calls of the redraw loop in this cycle
    req,             \* unit runs: the PlotBuilder2D handed to Plot::new2d
    surface,         \* unit runs: the Window that new2d and draw act on
    outcome          \* unit runs: how the last call on surface ended

vars == <<GUI_INITIALISED, thr, quota, pc, result, task_queue, lock, poisoned, pushes, popped,
          gpc, captured, windows, cur, brk, first, events, renders, drawn,
          req, surface, outcome>>

callerVars == <<pc, result>>
queueVars == <<task_queue, lock, poisoned, pushes, popped, renders>>
guiVars == <<gpc, captured, windows, cur, brk, first, events, drawn>>
unitVars == <<req, surface, outcome>>

EmptyMap == [i \in {} |-> 0]

Restrict(f, S) == [x \in S |-> f[x]]

GuiRunning(s) == gpc[s] \in {"init", "events", "drain", "add_window", "draw", "sleep"}
GuiEnded(s) == gpc[s] \in {"exited", "panicked"}

\* ------------------------------------------------- bounds resolution
Max2(a, b) == IF a >= b THEN a ELSE b
Min2(a, b) == IF a <= b THEN a ELSE b

\* f64::max / f64::min: a NaN operand is ignored.
f64_max(a, b) == IF a = NaN THEN b ELSE IF b = NaN THEN a ELSE F(Max2(a[1], b[1]))
f64_min(a, b) == IF a = NaN THEN b ELSE IF b = NaN THEN a ELSE F(Min2(a[1], b[1]))

\* the loop of get_max / get_min over values, starting from the first one
RECURSIVE scan_max(_, _)
scan_max(max, values) ==
    IF values = <<>> THEN max
    ELSE scan_max(IF Head(values) > max THEN Head(values) ELSE max, Tail(values))

RECURSIVE scan_min(_, _)
scan_min(min, values) ==
    IF values = <<>> THEN min
    ELSE scan_min(IF Head(values) < min THEN Head(values) ELSE min, Tail(values))

\* values.first().unwrap() panics on an empty vector
get_max_panics(user_max, values) == user_max = None /\ values = <<>>
get_min_panics(user_min, values) == user_min = None /\ values = <<>>

get_max(user_max, values) ==
    IF user_max # None THEN user_max[1] ELSE scan_max(Head(values), values)

get_min(user_min, values) ==
    IF user_min # None THEN user_min[1] ELSE scan_min(Head(values), values)

\* a fold that keeps the value of the last series only
fold_last(acc, vs) == IF vs = <<>> THEN acc ELSE F(vs[Len(vs)])

\* iter().cloned().fold(0. / 0., f64::max)
RECURSIVE fold_max(_, _)
fold_max(acc, vs) == IF vs = <<>> THEN acc ELSE fold_max(f64_max(acc, F(Head(vs))), Tail(vs))

RECURSIVE fold_min(_, _)
fold_min(acc, vs) == IF vs = <<>> THEN acc ELSE fold_min(f64_min(acc, F(Head(vs))), Tail(vs))

get_plot_bounds_panics(plot_builder, xs, ys) ==
    \E i \in 1..Len(xs) :
        \/ get_max_panics(plot_builder.max_x, xs[i])
        \/ get_max_panics(plot_builder.max_y, ys[i])
        \/ get_min_panics(plot_builder.min_x, xs[i])
        \/ get_min_panics(plot_builder.min_y, ys[i])

\* get_plot_bounds with the minima in the places of the maxima
get_plot_bounds_swapped(plot_builder, xs, ys) ==
    LET max_xs == [i \in 1..Len(xs) |-> get_max(plot_builder.max_x, xs[i])]
        max_ys == [i \in 1..Len(xs) |-> get_max(plot_builder.max_y, ys[i])]
        min_xs == [i \in 1..Len(xs) |-> get_min(plot_builder.min_x, xs[i])]
        min_ys == [i \in 1..Len(xs) |-> get_min(plot_builder.min_y, ys[i])]
    IN  <<fold_min(NaN, min_xs), fold_min(NaN, min_ys),
          fold_max(NaN, max_xs), fold_max(NaN, max_ys)>>

\* [MAX_X, MAX_Y, MIN_X, MIN_Y]
get_plot_bounds(plot_builder, xs, ys) ==
    LET max_xs == [i \in 1..Len(xs) |-> get_max(plot_builder.max_x, xs[i])]
        max_ys == [i \in 1..Len(xs) |-> get_max(plot_builder.max_y, ys[i])]
        min_xs == [i \in 1..Len(xs) |-> get_min(plot_builder.min_x, xs[i])]
        min_ys == [i \in 1..Len(xs) |-> get_min(plot_builder.min_y, ys[i])]
    IN  <<fold_max(NaN, max_xs), fold_max(NaN, max_ys),
          fold_min(NaN, min_xs), fold_min(NaN, min_ys)>>

\* Plot::new2d: the XyColor values of pvs, split by set_xy into x and y vectors
XyVals(plot_builder) == SelectSeq(plot_builder.pvs, LAMBDA pv : pv.kind = "XyColor")
x_points(plot_builder) ==
    LET s == XyVals(plot_builder)
    IN  [i \in 1..Len(s) |-> [j \in 1..Len(s[i].xy) |-> s[i].xy[j][1]]]
y_points(plot_builder) ==
    LET s == XyVals(plot_builder)
    IN  [i \in 1..Len(s) |-> [j \in 1..Len(s[i].xy) |-> s[i].xy[j][2]]]
colors_of(plot_builder) ==
    LET s == XyVals(plot_builder) IN [i \in 1..Len(s) |-> s[i].col]

new2d_panics(plot_builder) ==
    get_plot_bounds_panics(plot_builder, x_points(plot_builder), y_points(plot_builder))

\* ------------------------------------------------------------- Window
\* Window::new: no plot data yet.  task is the Render task the window was
\* created for (not a field of the code's Window).
Window_new(id, task) ==
    [id |-> id, xs |-> None, ys |-> None, colors |-> None, plot_bounds |-> None,
     task |-> task]

\* Window::draw panics when a field is None (unwrap) and when a series has no
\* point: len - 1 underflows (a panic in a debug build, and in a release build
\* an index out of bounds on xt[0]).
draw_panics(w) ==
    \/ w.xs = None \/ w.ys = None \/ w.plot_bounds = None \/ w.colors = None
    \/ \E i \in 1..Len(w.colors[1]) : Len(w.xs[1][i]) = 0

\* the window is built 720 x 720 (add_window) and draw keeps a margin of 0.05
WindowSide == 720
MarginPct == 5
I16Min == -32768
I16Max == 32767

\* n / d rounded towards zero, as the cast of a finite f64 to an integer does
Trunc(n, d) ==
    LET a == (IF n < 0 THEN -n ELSE n) \div (IF d < 0 THEN -d ELSE d)
    IN  IF (n < 0) # (d < 0) THEN -a ELSE a

\* point2plot: (((pt - min) / (max - min)) * (length - space) + space) as i16.
\* defined is FALSE when the f64 is NaN, infinite or outside i16, where the
\* result of the cast depends on the compiler; px is the pixel otherwise.
point2plot(pt, min, max, length, space) ==
    IF min = NaN \/ max = NaN \/ min = max
    THEN [defined |-> FALSE, px |-> 0]
    ELSE LET den == max[1] - min[1]
             px == Trunc((pt - min[1]) * (length - space) + space * den, den)
         IN  [defined |-> px >= I16Min /\ px <= I16Max, px |-> px]

\* Window::draw subtracts each y pixel from y_inv in i16 (lines 146 and 162):
\* an overflow there panics in a build with overflow checks and wraps in one
\* without.  w has its four fields set.
draw_may_overflow(w) ==
    LET space == (WindowSide * MarginPct) \div 100
        m == WindowSide - space
        y_inv == m + space
        y_min == w.plot_bounds[1][4]
        y_max == w.plot_bounds[1][2]
        Over(pt) == LET p == point2plot(pt, y_min, y_max, m, space)
                    IN  ~p.defined \/ y_inv - p.px > I16Max
    IN  \/ Over(0)
        \/ \E i \in 1..Len(w.ys[1]) : \E j \in 1..Len(w.ys[1][i]) : Over(w.ys[1][i][j])

\* Surface::draw_plots: the four fields are set (the draw follows).
draw_plots(w, xs, ys, colors, plot_bounds) ==
    [w EXCEPT !.xs = Some(xs), !.ys = Some(ys), !.colors = Some(colors),
              !.plot_bounds = Some(plot_bounds)]

\* Plot::new2d on a fresh window
new2d(plot_builder, w) ==
    LET xs == x_points(plot_builder)
        ys == y_points(plot_builder)
    IN  draw_plots(w, xs, ys, colors_of(plot_builder), get_plot_bounds(plot_builder, xs, ys))

\* the whole of add_window's body up to the insert panics
add_window_panics(plot_builder) ==
    \/ new2d_panics(plot_builder)
    \/ draw_panics(new2d(plot_builder, Window_new(0, NoTask)))

\* ---------------------------------------------------------- VecDeque
push_back(q, task) == Append(q, task)
\* pop_back in the place of pop_front
pop_back(q) == IF q = <<>> THEN <<NoTask, q>> ELSE <<q[Len(q)], SubSeq(q, 1, Len(q) - 1)>>
\* pop_front: the task removed (NoTask for None) and the rest
pop_front(q) == IF q = <<>> THEN <<NoTask, q>> ELSE <<Head(q), Tail(q)>>

\* ------------------------------------------------------- input events
Quit == [kind |-> "Quit", window_id |-> 0]
\* the or-pattern of lines 67-68: KeyDown of Escape, or Window Close, each
\* tagged with a window id
EscapeOrClose(id) == [kind |-> "EscapeOrClose", window_id |-> id]

\* ---------------------------------------------------------------- Init
InitShared ==
    /\ GUI_INITIALISED = FALSE
    /\ pc = [s \in Slots |-> "none"]
    /\ result = [s \in Slots |-> "none"]
    /\ task_queue = [s \in Slots |-> <<>>]
    /\ lock = [s \in Slots |-> "free"]
    /\ poisoned = [s \in Slots |-> FALSE]
    /\ pushes = [s \in Slots |-> 0]
    /\ popped = [s \in Slots |-> <<>>]
    /\ gpc = [s \in Slots |-> "none"]
    /\ captured = [s \in Slots |-> s]
    /\ windows = [s \in Slots |-> EmptyMap]
    /\ cur = [s \in Slots |-> NoTask]
    /\ brk = [s \in Slots |-> "none"]
    /\ first = [s \in Slots |-> FALSE]
    /\ events = [s \in Slots |-> <<>>]
    /\ renders = [s \in Slots |-> 0]
    /\ drawn = [s \in Slots |-> EmptyMap]

\* no unit run
UnitIdle ==
    /\ req = None
    /\ surface = None
    /\ outcome = "none"

\* one thread uses both slots
Init ==
    /\ InitShared
    /\ UnitIdle
    /\ thr = [s \in Slots |-> "main"]
    /\ quota = [t \in Threads |-> IF t = "main" THEN MaxPush ELSE 0]

\* one thread with one slot: the program holds one Plotter at a time
InitSolo ==
    /\ InitShared
    /\ UnitIdle
    /\ thr = [s \in Slots |-> IF s = "a" THEN "main" ELSE Nobody]
    /\ quota = [t \in Threads |-> IF t = "main" THEN MaxPush ELSE 0]

\* two threads, each with a slot of its own; the second one plots nothing and
\* the first one plots once on each Plotter
InitRace ==
    /\ InitShared
    /\ UnitIdle
    /\ thr = [s \in Slots |-> IF s = "a" THEN "main" ELSE "other"]
    /\ quota = [t \in Threads |-> IF t = "main" THEN 1 ELSE 0]

\* the slot is in use, the process has not aborted, and the thread of slot s
\* is not inside another call nor dead
CanCall(s) ==
    /\ thr[s] # Nobody
    /\ \A o \in Slots : pc[o] # "aborted"
    /\ \A o \in Slots \ {s} : thr[o] = thr[s] => pc[o] \in {"none", "live"}

ProcessAlive == \A o \in Slots : pc[o] # "aborted"

\* ------------------------------------------------------------- Plotter
\* PlotGUI::run: spawn the driver thread on the queue q
PlotGUI_run(s, q) ==
    /\ gpc' = [gpc EXCEPT ![s] = "init"]
    /\ captured' = [captured EXCEPT ![s] = q]
    /\ first' = [first EXCEPT ![s] = TRUE]
    /\ brk' = [brk EXCEPT ![s] = "none"]
    /\ drawn' = [drawn EXCEPT ![s] = EmptyMap]
    /\ UNCHANGED <<windows, cur, events>>

\* NewLoad with the driver spawned before the flag is looked at
NewLoad_SpawnsFirst(s) ==
    /\ pc[s] = "none"
    /\ CanCall(s)
    /\ gpc[s] = "none"
    /\ PlotGUI_run(s, s)
    /\ IF GUI_INITIALISED
       THEN /\ result' = [result EXCEPT ![s] = "Err"]
            /\ UNCHANGED pc
       ELSE /\ pc' = [pc EXCEPT ![s] = "new_store"]
            /\ UNCHANGED result
    /\ UNCHANGED <<unitVars, GUI_INITIALISED, thr, quota, queueVars>>

\* Plotter::new, line 31: GUI_INITIALISED.load; the Err return
NewLoad(s) ==
    /\ pc[s] = "none"
    /\ CanCall(s)
    /\ IF GUI_INITIALISED
       THEN /\ result' = [result EXCEPT ![s] = "Err"]
            /\ UNCHANGED pc
       ELSE /\ pc' = [pc EXCEPT ![s] = "new_store"]
            /\ UNCHANGED result
    /\ UNCHANGED <<unitVars, GUI_INITIALISED, thr, quota, queueVars, guiVars>>

\* Plotter::new, line 35: GUI_INITIALISED.store(true)
NewStore(s) ==
    /\ pc[s] = "new_store"
    /\ ProcessAlive
    /\ GUI_INITIALISED' = TRUE
    /\ pc' = [pc EXCEPT ![s] = "new_run"]
    /\ UNCHANGED <<unitVars, thr, quota, result, queueVars, guiVars>>

\* Plotter::new, lines 36-39: spawn the driver and return Ok(Plotter)
NewRun(s) ==
    /\ pc[s] = "new_run"
    /\ ProcessAlive
    /\ PlotGUI_run(s, s)
    /\ pc' = [pc EXCEPT ![s] = "live"]
    /\ result' = [result EXCEPT ![s] = "Ok"]
    /\ UNCHANGED <<unitVars, GUI_INITIALISED, thr, quota, queueVars>>

\* task_queue.lock().unwrap().push_back(task) on a mutex that is not poisoned
Push(s, task) ==
    /\ task_queue' = [task_queue EXCEPT ![s] = push_back(@, task)]
    /\ pushes' = [pushes EXCEPT ![s] = @ + 1]

\* Plotter::plot2d.  On a poisoned mutex lock().unwrap() panics; the unwinding
\* drops the Plotter, whose drop panics on the same mutex: the process aborts.
Plot2d(s, plot_builder) ==
    /\ pc[s] = "live"
    /\ CanCall(s)
    /\ renders[s] < quota[thr[s]]
    /\ lock[s] = "free"
    /\ IF poisoned[s]
       THEN /\ pc' = [pc EXCEPT ![s] = "aborted"]
            /\ UNCHANGED <<task_queue, pushes, renders>>
       ELSE /\ Push(s, PlotTask(pushes[s] + 1, plot_builder))
            /\ renders' = [renders EXCEPT ![s] = @ + 1]
            /\ UNCHANGED pc
    /\ UNCHANGED <<unitVars, GUI_INITIALISED, thr, quota, result, lock, poisoned, popped, guiVars>>

\* Drop, line 55: push Terminate (lock().unwrap() panics on a poisoned mutex,
\* which leaves drop before the flag is cleared)
DropPush(s) ==
    /\ pc[s] = "live"
    /\ CanCall(s)
    /\ lock[s] = "free"
    /\ IF poisoned[s]
       THEN /\ pc' = [pc EXCEPT ![s] = "panicked"]
            /\ UNCHANGED <<task_queue, pushes>>
       ELSE /\ Push(s, Terminate(pushes[s] + 1))
            /\ pc' = [pc EXCEPT ![s] = "drop_join"]
    /\ UNCHANGED <<unitVars, GUI_INITIALISED, thr, quota, result, lock, poisoned, popped, renders,
                   guiVars>>

\* DropJoin that does not wait for the driver thread
DropJoin_NoWait(s) ==
    /\ pc[s] = "drop_join"
    /\ ProcessAlive
    /\ pc' = [pc EXCEPT ![s] = "drop_store"]
    /\ UNCHANGED <<unitVars, GUI_INITIALISED, thr, quota, result, queueVars, guiVars>>

\* Drop, line 56: plot_gui.join().unwrap() returns once the driver thread has
\* ended (the thread, its PlotGUI and its windows are gone then), and panics
\* if the thread ended by a panic
DropJoin(s) ==
    /\ pc[s] = "drop_join"
    /\ ProcessAlive
    /\ GuiEnded(s)
    /\ IF gpc[s] = "panicked"
       THEN /\ pc' = [pc EXCEPT ![s] = "panicked"]
            /\ UNCHANGED <<gpc, windows, brk, first, drawn>>
       ELSE /\ pc' = [pc EXCEPT ![s] = "drop_store"]
            /\ gpc' = [gpc EXCEPT ![s] = "none"]
            /\ windows' = [windows EXCEPT ![s] = EmptyMap]
            /\ brk' = [brk EXCEPT ![s] = "none"]
            /\ first' = [first EXCEPT ![s] = FALSE]
            /\ drawn' = [drawn EXCEPT ![s] = EmptyMap]
    /\ UNCHANGED <<unitVars, GUI_INITIALISED, thr, quota, result, queueVars, captured, cur, events>>

\* Drop, line 58: GUI_INITIALISED.store(false); the Plotter's fields are
\* dropped after it (the queue is freed)
DropStore(s) ==
    /\ pc[s] = "drop_store"
    /\ ProcessAlive
    /\ GUI_INITIALISED' = FALSE
    /\ pc' = [pc EXCEPT ![s] = "none"]
    /\ task_queue' = [task_queue EXCEPT ![s] = <<>>]
    /\ poisoned' = [poisoned EXCEPT ![s] = FALSE]
    /\ pushes' = [pushes EXCEPT ![s] = 0]
    /\ popped' = [popped EXCEPT ![s] = <<>>]
    /\ renders' = [renders EXCEPT ![s] = 0]
    /\ UNCHANGED <<unitVars, thr, quota, result, lock, guiVars>>

\* ------------------------------------------------------------- PlotGUI
\* the driver thread ends: its event pump and its windows go with it (windows
\* keeps the live set as it was when the loop was left, until the join)
GuiEnds(s, how, by) ==
    /\ gpc' = [gpc EXCEPT ![s] = how]
    /\ brk' = [brk EXCEPT ![s] = by]
    /\ events' = [events EXCEPT ![s] = <<>>]
    /\ cur' = [cur EXCEPT ![s] = NoTask]

\* event_loop, lines 58-61: sdl2::init().unwrap() and event_pump().unwrap()
GuiInit(s) ==
    /\ gpc[s] = "init"
    /\ ProcessAlive
    /\ \/ /\ gpc' = [gpc EXCEPT ![s] = "events"]
          /\ windows' = [windows EXCEPT ![s] = EmptyMap]
          /\ UNCHANGED <<brk, events, cur>>
       \/ /\ GuiEnds(s, "panicked", "none")
          /\ UNCHANGED windows
    /\ UNCHANGED <<unitVars, GUI_INITIALISED, thr, quota, callerVars, queueVars, captured, first, drawn>>

\* HandleEvent that leaves the loop on every close of a live window
HandleEvent_BreakOnClose(s, event) ==
    IF event.kind = "Quit"
    THEN /\ GuiEnds(s, "exited", "quit")
         /\ UNCHANGED windows
    ELSE IF event.kind = "EscapeOrClose" /\ event.window_id \in DOMAIN windows[s]
    THEN /\ windows' = [windows EXCEPT ![s] =
                            Restrict(@, DOMAIN @ \ {event.window_id})]
         /\ GuiEnds(s, "exited", "closed")
    ELSE /\ events' = [events EXCEPT ![s] = Tail(@)]
         /\ UNCHANGED <<gpc, brk, cur, windows>>

\* HandleEvent that stays in the loop when the last window is closed
HandleEvent_NoBreak(s, event) ==
    IF event.kind = "Quit"
    THEN /\ GuiEnds(s, "exited", "quit")
         /\ UNCHANGED windows
    ELSE /\ events' = [events EXCEPT ![s] = Tail(@)]
         /\ windows' = [windows EXCEPT ![s] =
                            IF event.kind = "EscapeOrClose"
                            THEN Restrict(@, DOMAIN @ \ {event.window_id}) ELSE @]
         /\ UNCHANGED <<gpc, brk, cur>>

\* HandleEvent that checks the live set for emptiness after every close or
\* Escape event, whether the event removed a window or not
HandleEvent_BreakIfEmpty(s, event) ==
    IF event.kind = "Quit"
    THEN /\ GuiEnds(s, "exited", "quit")
         /\ UNCHANGED windows
    ELSE LET rest == Restrict(windows[s], DOMAIN windows[s] \ {event.window_id})
         IN  /\ windows' = [windows EXCEPT ![s] = rest]
             /\ IF DOMAIN rest = {}
                THEN GuiEnds(s, "exited", "closed")
                ELSE /\ events' = [events EXCEPT ![s] = Tail(@)]
                     /\ UNCHANGED <<gpc, brk, cur>>

\* lines 65-76: the match on one polled event
HandleEvent(s, event) ==
    IF event.kind = "Quit"
    THEN /\ GuiEnds(s, "exited", "quit")
         /\ UNCHANGED windows
    ELSE IF event.kind = "EscapeOrClose" /\ event.window_id \in DOMAIN windows[s]
    THEN LET rest == Restrict(windows[s], DOMAIN windows[s] \ {event.window_id})
         IN  /\ windows' = [windows EXCEPT ![s] = rest]
             /\ IF DOMAIN rest = {}
                THEN GuiEnds(s, "exited", "closed")
                ELSE /\ events' = [events EXCEPT ![s] = Tail(@)]
                     /\ UNCHANGED <<gpc, brk, cur>>
    ELSE /\ events' = [events EXCEPT ![s] = Tail(@)]
         /\ UNCHANGED <<gpc, brk, cur, windows>>

\* lines 64-77: events.poll_iter() yields a pending event
GuiPollEvent(s) ==
    /\ gpc[s] = "events"
    /\ ProcessAlive
    /\ events[s] # <<>>
    /\ HandleEvent(s, Head(events[s]))
    /\ UNCHANGED <<unitVars, GUI_INITIALISED, thr, quota, callerVars, queueVars, captured, first, drawn>>

\* GuiPollDone that goes on to the redraw, past the drain of the task queue
GuiPollDone_SkipsDrain(s) ==
    /\ gpc[s] = "events"
    /\ ProcessAlive
    /\ events[s] = <<>>
    /\ gpc' = [gpc EXCEPT ![s] = "draw"]
    /\ UNCHANGED <<unitVars, GUI_INITIALISED, thr, quota, callerVars, queueVars, captured, windows, cur,
                   brk, first, drawn, events>>

\* poll_iter() yields None: on to the drain of the task queue
GuiPollDone(s) ==
    /\ gpc[s] = "events"
    /\ ProcessAlive
    /\ events[s] = <<>>
    /\ gpc' = [gpc EXCEPT ![s] = "drain"]
    /\ UNCHANGED <<unitVars, GUI_INITIALISED, thr, quota, callerVars, queueVars, captured, windows, cur,
                   brk, first, drawn, events>>

\* the MutexGuard made by task_queue.lock().unwrap() in the scrutinee of the
\* match of line 79 lives to the end of the match: the arms run under the lock
HoldsWhileHandling == "gui"

\* GuiPop whose Terminate arm leaves the loop whatever the live set holds
GuiPop_TerminateBreaks(s) ==
    LET q == captured[s]
        got == pop_front(task_queue[q])
        task == got[1]
    IN  /\ gpc[s] = "drain"
        /\ ProcessAlive
        /\ lock[q] = "free"
        /\ task_queue' = [task_queue EXCEPT ![q] = got[2]]
        /\ popped' = [popped EXCEPT ![q] =
                         IF task.kind = "none" THEN @
                         ELSE Append(@, [kind |-> task.kind, n |-> task.n])]
        /\ IF task.kind = "none"
           THEN /\ gpc' = [gpc EXCEPT ![s] = "draw"]
                /\ UNCHANGED <<lock, cur, brk, events>>
           ELSE IF task.kind = "PlotTask"
           THEN /\ gpc' = [gpc EXCEPT ![s] = "add_window"]
                /\ cur' = [cur EXCEPT ![s] = task]
                /\ lock' = [lock EXCEPT ![q] = "gui"]
                /\ UNCHANGED <<brk, events>>
           ELSE /\ GuiEnds(s, "exited", "terminate")
                /\ UNCHANGED lock
        /\ UNCHANGED <<unitVars, GUI_INITIALISED, thr, quota, callerVars, poisoned, pushes, renders,
                       captured, windows, first, drawn>>

\* lines 79-88: lock, pop_front, and the arms None and Terminate
GuiPop(s) ==
    LET q == captured[s]
        got == pop_front(task_queue[q])
        task == got[1]
    IN  /\ gpc[s] = "drain"
        /\ ProcessAlive
        /\ lock[q] = "free"
        /\ task_queue' = [task_queue EXCEPT ![q] = got[2]]
        /\ popped' = [popped EXCEPT ![q] =
                         IF task.kind = "none" THEN @
                         ELSE Append(@, [kind |-> task.kind, n |-> task.n])]
        /\ IF task.kind = "none"
           THEN /\ gpc' = [gpc EXCEPT ![s] = "draw"]
                /\ UNCHANGED <<lock, cur, brk, events>>
           ELSE IF task.kind = "PlotTask"
           THEN /\ gpc' = [gpc EXCEPT ![s] = "add_window"]
                /\ cur' = [cur EXCEPT ![s] = task]
                /\ lock' = [lock EXCEPT ![q] = HoldsWhileHandling]
                /\ UNCHANGED <<brk, events>>
           ELSE IF DOMAIN windows[s] = {}
           THEN /\ GuiEnds(s, "exited", "terminate")
                /\ UNCHANGED lock
           ELSE UNCHANGED <<gpc, lock, cur, brk, events>>
        /\ UNCHANGED <<unitVars, GUI_INITIALISED, thr, quota, callerVars, poisoned, pushes, renders,
                       captured, windows, first, drawn>>

\* insert under the key of the first window id, whatever id is
insert_first_key(ws, id, w) == [i \in DOMAIN ws \cup {1} |-> IF i = 1 THEN w ELSE ws[i]]

\* insert of a window made anew by Window::new in the place of w
insert_unset(ws, id, w) ==
    [i \in DOMAIN ws \cup {id} |-> IF i = id THEN Window_new(id, w.task) ELSE ws[i]]

\* HashMap::insert
insert(ws, id, w) == [i \in DOMAIN ws \cup {id} |-> IF i = id THEN w ELSE ws[i]]

\* add_window, lines 98-111, called from the PlotTask arm.  A panic (the
\* backend's unwraps, the bounds of an empty series, the first draw) unwinds
\* through the MutexGuard and poisons the mutex if the guard is alive.
GuiAddWindow(s) ==
    LET q == captured[s]
        plot_builder == cur[s].plot_builder
        Panic == /\ GuiEnds(s, "panicked", "none")
                 /\ poisoned' = [poisoned EXCEPT ![q] = @ \/ lock[q] = "gui"]
                 /\ UNCHANGED windows
    IN  /\ gpc[s] = "add_window"
        /\ ProcessAlive
        /\ lock' = [lock EXCEPT ![q] = "free"]
        /\ \/ Panic
           \/ IF add_window_panics(plot_builder)
              THEN Panic
              ELSE /\ \E id \in WinIds \ DOMAIN windows[s] :
                         windows' = [windows EXCEPT ![s] =
                             insert(@, id, new2d(plot_builder, Window_new(id, cur[s])))]
                   /\ gpc' = [gpc EXCEPT ![s] = "drain"]
                   /\ cur' = [cur EXCEPT ![s] = NoTask]
                   /\ UNCHANGED <<poisoned, brk, events>>
        /\ UNCHANGED <<unitVars, GUI_INITIALISED, thr, quota, callerVars, task_queue, pushes, popped, renders,
                       captured, first, drawn>>

\* a redraw that leaves out every window but the one of the least id
redraw_least(ws) ==
    [id \in {i \in DOMAIN ws : \A j \in DOMAIN ws : i <= j} |-> 1]

\* for window in self.windows.values_mut(): one draw() for each value of the map
redraw(ws) == [id \in DOMAIN ws |-> 1]

\* lines 91-93: window.draw() for every window of the live set (drawn counts
\* the calls of a loop that came to its end)
GuiDraw(s) ==
    /\ gpc[s] = "draw"
    /\ ProcessAlive
    /\ IF \E id \in DOMAIN windows[s] : draw_panics(windows[s][id])
       THEN /\ GuiEnds(s, "panicked", "none")
            /\ UNCHANGED drawn
       ELSE /\ gpc' = [gpc EXCEPT ![s] = "sleep"]
            /\ drawn' = [drawn EXCEPT ![s] = redraw(windows[s])]
            /\ UNCHANGED <<brk, events, cur>>
    /\ UNCHANGED <<unitVars, GUI_INITIALISED, thr, quota, callerVars, queueVars, captured, windows,
                   first>>

\* line 94: thread::sleep, then the next cycle
GuiSleep(s) ==
    /\ gpc[s] = "sleep"
    /\ ProcessAlive
    /\ gpc' = [gpc EXCEPT ![s] = "events"]
    /\ first' = [first EXCEPT ![s] = FALSE]
    /\ drawn' = [drawn EXCEPT ![s] = EmptyMap]
    /\ UNCHANGED <<unitVars, GUI_INITIALISED, thr, quota, callerVars, queueVars, captured, windows, cur,
                   brk, events>>

\* ---------------------------------------------------------------- user
\* the windowing backend queues an input event for a driver whose event pump
\* exists: a quit, or an Escape key press / a close request tagged with a
\* window id, which may be the id of a window that is no longer (or not yet) in
\* the live set (events of the arm `_ => {}` change nothing and are not queued)
PumpExists(s) == gpc[s] \in {"events", "drain", "add_window", "draw", "sleep"}

UserEvent(s, event) ==
    /\ PumpExists(s)
    /\ ProcessAlive
    /\ Len(events[s]) < MaxEvents
    /\ events' = [events EXCEPT ![s] = Append(@, event)]
    /\ UNCHANGED <<unitVars, GUI_INITIALISED, thr, quota, callerVars, queueVars, gpc, captured, windows,
                   cur, brk, first, drawn>>

UserQuit(s) == UserEvent(s, Quit)
UserClose(s, id) == UserEvent(s, EscapeOrClose(id))

\* ------------------------------------------------------------ unit runs
\* Plot::new2d and Window::draw called on one window outside the driver
\* thread, for every request made of at most MaxSeries series of at most
\* MaxPoints points, with each bound overridden or not.
MaxSeries == 2
MaxPoints == 2

UnitPoints == {<<0, 2>>, <<3, -1>>}
UnitSeries == UNION {[1..n -> UnitPoints] : n \in 0..MaxPoints}
UnitPvs == UNION {[1..n -> {XyColor("red", xy) : xy \in UnitSeries}] : n \in 0..MaxSeries}
UnitOverrides == {None, Some(1)}
UnitRequests ==
    {PlotBuilder2D(pvs, max_x, max_y, min_x, min_y) :
        pvs \in UnitPvs, max_x \in UnitOverrides, max_y \in UnitOverrides,
        min_x \in UnitOverrides, min_y \in UnitOverrides}

\* Window::new for the window the unit run acts on; no caller thread, no driver
InitUnit ==
    /\ InitShared
    /\ thr = [s \in Slots |-> Nobody]
    /\ quota = [t \in Threads |-> 0]
    /\ req \in UnitRequests
    /\ surface = Window_new(1, NoTask)
    /\ outcome = "new"

\* how a call of Window::draw on w ends
draw_outcomes(w) ==
    IF draw_panics(w) THEN {"draw_panicked"}
    ELSE IF draw_may_overflow(w) THEN {"draw_panicked", "drawn"}
    ELSE {"drawn"}

\* window.draw() on the window as it is
UnitDraw ==
    /\ outcome \in {"new", "drawn"}
    /\ outcome' \in draw_outcomes(surface)
    /\ UNCHANGED <<req, surface, GUI_INITIALISED, thr, quota, callerVars, queueVars, guiVars>>

\* plot.new2d(req, &mut surface): the bounds (which may panic), then
\* surface.draw_plots, which sets the data and draws
UnitNew2d ==
    /\ outcome = "new"
    /\ IF new2d_panics(req)
       THEN /\ outcome' = "bounds_panicked"
            /\ UNCHANGED surface
       ELSE /\ surface' = new2d(req, surface)
            /\ outcome' \in draw_outcomes(new2d(req, surface))
    /\ UNCHANGED <<req, GUI_INITIALISED, thr, quota, callerVars, queueVars, guiVars>>

NextUnit == UnitDraw \/ UnitNew2d

SpecUnit == InitUnit /\ [][NextUnit]_vars

\* ---------------------------------------------------------------- Next
Next ==
    \E s \in Slots :
        \/ NewLoad(s)
        \/ NewStore(s)
        \/ NewRun(s)
        \/ \E plot_builder \in Requests : Plot2d(s, plot_builder)
        \/ DropPush(s)
        \/ DropJoin(s)
        \/ DropStore(s)
        \/ GuiInit(s)
        \/ GuiPollEvent(s)
        \/ GuiPollDone(s)
        \/ GuiPop(s)
        \/ GuiAddWindow(s)
        \/ GuiDraw(s)
        \/ GuiSleep(s)
        \/ UserQuit(s)
        \/ \E id \in WinIds : UserClose(s, id)

Spec == Init /\ [][Next]_vars
SpecRace == InitRace /\ [][Next]_vars

\* The scheduler runs a driver thread that can take a step, and a caller whose
\* join can return.  Every poll of input events comes to an end (line 64):
\* events do not arrive for ever faster than poll_iter() hands them out.
\* Nothing else is assumed of the user, and nothing of the caller's other calls.
GuiStep(s) ==
    \/ GuiInit(s) \/ GuiPollEvent(s) \/ GuiPollDone(s) \/ GuiPop(s)
    \/ GuiAddWindow(s) \/ GuiDraw(s) \/ GuiSleep(s)

Fairness ==
    \A s \in Slots :
        /\ WF_vars(GuiStep(s))
        /\ []<>(gpc[s] # "events")
        /\ WF_vars(DropJoin(s))
        /\ WF_vars(DropStore(s))

SpecLive == InitSolo /\ [][Next]_vars /\ Fairness

\* =============================================================== claims
RunningDrivers == {s \in Slots : GuiRunning(s)}
NumbersOf(q) == [i \in 1..Len(q) |-> q[i].n]
PoppedPlotTasks(s) == {popped[s][i].n : i \in {j \in 1..Len(popped[s]) : popped[s][j].kind = "PlotTask"}}

\* C1: at most one GUI driver thread exists at any time, also when Plotter::new
\* is called concurrently from several threads (the claim as made; the load of
\* line 31 and the store of line 35 are two steps, so it fails).
C1_AtMostOneDriver == Cardinality(RunningDrivers) <= 1

\* C2: a Plotter::new that finds the flag set returns Err and changes nothing
\* (no driver is spawned, the flag and every queue and driver stay as they
\* are); a Plotter::new goes on only when it found the flag clear, then sets
\* the flag, spawns exactly one driver thread, on the queue its Plotter holds,
\* and returns Ok; a driver thread is spawned by nothing else.
C2_NewContract ==
    [][\A s \in Slots :
          /\ (result'[s] # result[s] /\ result'[s] = "Err")
                => /\ GUI_INITIALISED
                   /\ UNCHANGED <<GUI_INITIALISED, pc, queueVars, guiVars>>
          /\ (pc[s] = "none" /\ GUI_INITIALISED) => pc'[s] = "none"
          /\ (pc[s] = "none" /\ pc'[s] # "none")
                => ~GUI_INITIALISED /\ UNCHANGED <<GUI_INITIALISED, queueVars, guiVars>>
          /\ (pc[s] = "new_store" /\ pc'[s] # "new_store")
                => GUI_INITIALISED' /\ UNCHANGED <<queueVars, guiVars>>
          /\ (pc[s] = "new_run" /\ pc'[s] # "new_run")
                => /\ pc'[s] = "live" /\ result'[s] = "Ok"
                   /\ gpc[s] = "none" /\ gpc'[s] = "init"
                   /\ captured'[s] = s /\ task_queue'[s] = <<>>
                   /\ \A o \in Slots \ {s} : gpc'[o] = gpc[o]
          /\ (gpc[s] = "none" /\ gpc'[s] # "none") => pc[s] = "new_run"
      ]_vars

\* C2 witness: a new returned Err while another Plotter is live with its driver
C2_Witness ==
    \E s, o \in Slots :
        /\ result[s] = "Err" /\ pc[s] = "none"
        /\ result[o] = "Ok" /\ pc[o] = "live" /\ GuiRunning(o)

\* C3: teardown pushes Terminate, then waits for the driver thread, then clears
\* the flag: while it waits and until it clears the flag, the Terminate has
\* been pushed and the flag is set; past the join the driver is not running;
\* and, with one caller thread, a clear flag implies that no driver runs.
C3_TeardownOrder ==
    /\ ~GUI_INITIALISED => RunningDrivers = {}
    /\ \A s \in Slots :
          /\ pc[s] \in {"drop_join", "drop_store"}
                => /\ GUI_INITIALISED
                   /\ \E i \in 1..pushes[s] :
                         \/ i <= Len(popped[s]) /\ popped[s][i].kind = "Terminate"
                         \/ i <= Len(task_queue[s]) /\ task_queue[s][i].kind = "Terminate"
          /\ (pc[s] = "drop_store" \/ (pc[s] = "none" /\ result[s] = "Ok"))
                => ~GuiRunning(s)

\* C3 witness: a teardown has gone past the join of a driver that had started
C3_Witness == \E s \in Slots : pc[s] = "drop_store" /\ GUI_INITIALISED /\ Len(popped[s]) > 0

\* while a window is open, the user goes on asking for the close of one
UserClosesOpenWindows(s) ==
    SF_vars(\E id \in DOMAIN windows[s] : UserClose(s, id))

TeardownEnded(s) == pc[s] \in {"none", "panicked"}

\* no window is open and no Render task is in the queue or being handled, or
\* the driver thread has ended already
NothingToShow(s) ==
    \/ GuiEnded(s)
    \/ /\ DOMAIN windows[s] = {}
       /\ gpc[s] # "add_window"
       /\ \A i \in 1..Len(task_queue[s]) : task_queue[s][i].kind # "PlotTask"

\* C4: under fair scheduling of the driver loop a teardown that waits for the
\* driver thread ends if the user goes on closing the windows still open; it ends
\* without any user action when no window is open and no Render task is ahead
\* of the Terminate, or when the driver has ended already; and it returns (it
\* goes on to clear the flag) whenever the driver left its loop normally.
C4_TeardownReturns ==
    /\ \A s \in Slots :
          UserClosesOpenWindows(s) => ((pc[s] = "drop_join") ~> TeardownEnded(s))
    /\ \A s \in Slots : (pc[s] = "drop_join" /\ NothingToShow(s)) ~> TeardownEnded(s)
    /\ [][\A s \in Slots :
             (pc[s] = "drop_join" /\ gpc[s] = "exited" /\ pc'[s] # "drop_join")
                => pc'[s] = "drop_store"]_vars

\* C4 witness: a teardown waits for a driver that has windows open and has
\* popped and dropped the Terminate
C4_Witness ==
    \E s \in Slots :
        /\ pc[s] = "drop_join" /\ GuiRunning(s) /\ DOMAIN windows[s] # {}
        /\ task_queue[s] = <<>>

\* C5 as made: the driver leaves its loop normally only with an empty live set
C5_ExitOnlyWhenEmpty == \A s \in Slots : gpc[s] = "exited" => DOMAIN windows[s] = {}

\* C5 amended: the driver leaves its loop normally only through a quit event
\* (whatever the live set holds), through the close of the last window, or
\* through a Terminate consumed while the live set is empty; in the last two
\* cases no window is in the live set.
C5_ExitOnlyWhenEmptyOrQuit ==
    \A s \in Slots :
        gpc[s] = "exited" =>
            /\ brk[s] \in {"quit", "closed", "terminate"}
            /\ brk[s] # "quit" => DOMAIN windows[s] = {}

\* C5 witness: the loop was left through the close of the last window
C5_Witness ==
    \E s \in Slots : gpc[s] = "exited" /\ brk[s] = "closed" /\ Len(popped[s]) >= 2

\* C6 as made: plot2d never panics
C6_Plot2dNeverPanics == \A s \in Slots : pc[s] # "aborted"

\* C7 as made: the driver does not hold the queue's mutex while it handles a task
C7_LockFreeWhileHandling ==
    \A s \in Slots : gpc[s] = "add_window" => lock[captured[s]] = "free"

\* C8 as made: a teardown that has ended, also one that met a driver thread
\* ended by a panic, leaves the flag clear
C8_TeardownLeavesFlagClear == \A s \in Slots : pc[s] = "panicked" => ~GUI_INITIALISED

\* C9: the queue is FIFO: the tasks popped so far followed by the tasks still
\* queued are the tasks in the order of their push (task i is the i-th pushed),
\* so a Terminate is never popped before a Render pushed earlier, and windows
\* are created in submission order: every window in the live set comes from a
\* task pushed before the task being handled.
C9_Fifo ==
    \A s \in Slots :
        LET all == NumbersOf(popped[s]) \o NumbersOf(task_queue[s])
        IN  /\ Len(all) = pushes[s]
            /\ \A i \in 1..Len(all) : all[i] = i
            /\ cur[s].kind = "PlotTask" =>
                  /\ cur[s].n = Len(popped[s])
                  /\ \A id \in DOMAIN windows[s] : windows[s][id].task.n < cur[s].n

\* C9 witness: two Render tasks and the Terminate pushed after them were popped
C9_Witness ==
    \E s \in Slots : Len(popped[s]) = 3 /\ popped[s][3].kind = "Terminate"
                     /\ Cardinality(DOMAIN windows[s]) = 2

\* C10: when the first drain of a driver has ended (not by a panic), the live
\* set holds one window for each Render task popped, the tasks pushed so far
\* being these and the ones still queued; each window holds the series, the
\* colours and the bounds resolved from the request of its own task.
C10_FirstDrain ==
    \A s \in Slots :
        (first[s] /\ gpc[s] = "draw") =>
            /\ Cardinality(DOMAIN windows[s]) = Cardinality(PoppedPlotTasks(s))
            /\ {windows[s][id].task.n : id \in DOMAIN windows[s]} = PoppedPlotTasks(s)
            /\ Len(popped[s]) + Len(task_queue[s]) = pushes[s]
            /\ \A id \in DOMAIN windows[s] :
                  LET w == windows[s][id]
                      pb == w.task.plot_builder
                  IN  /\ w.id = id
                      /\ w.xs = Some(x_points(pb))
                      /\ w.ys = Some(y_points(pb))
                      /\ w.colors = Some(colors_of(pb))
                      /\ w.plot_bounds = Some(get_plot_bounds(pb, x_points(pb), y_points(pb)))

\* C10 witness: the first drain ended with two windows of different requests
C10_Witness ==
    \E s \in Slots :
        /\ first[s] /\ gpc[s] = "draw"
        /\ \E i, j \in DOMAIN windows[s] :
              /\ windows[s][i].task.plot_builder = ReqLine
              /\ windows[s][j].task.plot_builder = ReqTwo

\* ------------------------------------------------------------------ C11
\* the driver of slot s takes a Terminate off its queue in this step
ConsumesTerminate(s) ==
    LET q == captured[s]
    IN  /\ gpc[s] = "drain"
        /\ Len(popped'[q]) = Len(popped[q]) + 1
        /\ popped'[q][Len(popped'[q])].kind = "Terminate"

\* the driver of slot s runs on after it consumed a Terminate
DroppedTerminate(s) ==
    /\ GuiRunning(s)
    /\ \E i \in 1..Len(popped[captured[s]]) : popped[captured[s]][i].kind = "Terminate"

\* the step that consumes a Terminate while the live set is not empty changes
\* no window and no live set, and leaves the driver in the drain loop
TerminateDroppedFrame(s) ==
    ConsumesTerminate(s) /\ DOMAIN windows[s] # {} =>
        /\ windows' = windows
        /\ gpc'[s] = "drain"
        /\ brk'[s] = brk[s]
        /\ cur'[s] = cur[s]
        /\ events'[s] = events[s]

\* the driver of slot s leaves its loop in this step, having dropped a
\* Terminate before
ExitsAfterDrop(s) == DroppedTerminate(s) /\ gpc'[s] = "exited"

\* C11 as claimed: a Terminate consumed while the live set is not empty is
\* dropped without effect (live set and windows unchanged, the driver goes on
\* draining), and the driver leaves its loop later only by the user's closing
\* of the last window or by a further Terminate consumed with the set empty.
\* A quit event ends the loop as well, so this fails.
C11_TerminateDropped ==
    [][\A s \in Slots :
          /\ TerminateDroppedFrame(s)
          /\ ExitsAfterDrop(s) =>
                 \/ brk'[s] = "closed" /\ DOMAIN windows'[s] = {}
                 \/ brk'[s] = "terminate" /\ ConsumesTerminate(s) /\ DOMAIN windows[s] = {}]_vars

\* C11 amended: as above, and the later exit is by the user's closing of the
\* last window, by a quit event, or by a further Terminate consumed with the
\* set empty.
C11_TerminateDroppedOrQuit ==
    [][\A s \in Slots :
          /\ TerminateDroppedFrame(s)
          /\ ExitsAfterDrop(s) =>
                 \/ brk'[s] = "closed" /\ DOMAIN windows'[s] = {}
                 \/ brk'[s] = "quit"
                 \/ brk'[s] = "terminate" /\ ConsumesTerminate(s) /\ DOMAIN windows[s] = {}]_vars

\* a driver that dropped a Terminate and left its loop on a quit event with a
\* window still open
C11_Witness ==
    \E s \in Slots :
        /\ gpc[s] = "exited"
        /\ brk[s] = "quit"
        /\ DOMAIN windows[s] # {}
        /\ \E i \in 1..Len(popped[s]) : popped[s][i].kind = "Terminate"

\* ------------------------------------------------------------------ C12
\* the unit run's new2d got past get_plot_bounds: surface holds the bounds
Resolved == surface.plot_bounds # None
\* [MAX_X, MAX_Y, MIN_X, MIN_Y] as stored in surface
ResolvedBounds == surface.plot_bounds[1]
\* the overrides of the request in the same order
OverridesOf(plot_builder) ==
    <<plot_builder.max_x, plot_builder.max_y, plot_builder.min_x, plot_builder.min_y>>

\* C12: for every axis bound the request overrides, the bounds resolver
\* returns exactly the override, whatever the series are: any number of
\* series (none included), any points.  (With no series at all the loop of
\* get_plot_bounds never calls get_max / get_min and the folds return NaN.)
C12_OverrideVerbatim ==
    Resolved =>
        \A k \in 1..4 :
            OverridesOf(req)[k] # None => ResolvedBounds[k] = F(OverridesOf(req)[k][1])

\* ------------------------------------------------------------------ C13
\* every series of the request has a point, and there is a series
AllNonEmpty(plot_builder) ==
    /\ Len(XyVals(plot_builder)) > 0
    /\ \A i \in 1..Len(XyVals(plot_builder)) : Len(XyVals(plot_builder)[i].xy) > 0

\* the values of all points of all series on an axis (1 = x, 2 = y)
AxisValues(plot_builder, axis) ==
    LET s == XyVals(plot_builder)
    IN  UNION {{s[i].xy[j][axis] : j \in 1..Len(s[i].xy)} : i \in 1..Len(s)}
GreatestOf(S) == CHOOSE m \in S : \A v \in S : v <= m
LeastOf(S) == CHOOSE m \in S : \A v \in S : m <= v
\* [MAX_X, MAX_Y, MIN_X, MIN_Y] over the points themselves
TrueExtrema(plot_builder) ==
    <<GreatestOf(AxisValues(plot_builder, 1)), GreatestOf(AxisValues(plot_builder, 2)),
      LeastOf(AxisValues(plot_builder, 1)), LeastOf(AxisValues(plot_builder, 2))>>

\* C13: for every request whose series all have points, and every axis bound
\* without an override, the resolved bound is the greatest (least) value over
\* all points of all series on that axis: series of different ranges are
\* unioned.
C13_TrueExtrema ==
    Resolved /\ AllNonEmpty(req) =>
        \A k \in 1..4 :
            OverridesOf(req)[k] = None => ResolvedBounds[k] = F(TrueExtrema(req)[k])

\* two series of disjoint ranges, no override: the bounds span both
C13_Witness ==
    /\ Resolved
    /\ XyVals(req) = <<XyColor("red", <<<<3, -1>>>>), XyColor("red", <<<<0, 2>>>>)>>
    /\ OverridesOf(req) = <<None, None, None, None>>
    /\ ResolvedBounds = <<F(3), F(2), F(0), F(-1)>>

\* ------------------------------------------------------------------ C14
\* a >= b on f64: false when an operand is NaN
Geq(a, b) == a # NaN /\ b # NaN /\ a[1] >= b[1]

\* C14 as claimed: the bounds stored in a window have max_x >= min_x and
\* max_y >= min_y, for every request whose series all have points and for
\* every combination of overridden and omitted bounds.  An override is stored
\* as given, so a max_x override below the least x of the data fails this.
C14_BoundsOrdered ==
    Resolved /\ AllNonEmpty(req) =>
        /\ Geq(ResolvedBounds[1], ResolvedBounds[3])
        /\ Geq(ResolvedBounds[2], ResolvedBounds[4])

\* C14 amended: for every request whose series all have points, the stored
\* bounds have max >= min on each axis of which the request overrides neither
\* bound.
C14_BoundsOrderedWithoutOverride ==
    Resolved /\ AllNonEmpty(req) =>
        /\ req.max_x = None /\ req.min_x = None => Geq(ResolvedBounds[1], ResolvedBounds[3])
        /\ req.max_y = None /\ req.min_y = None => Geq(ResolvedBounds[2], ResolvedBounds[4])

\* a window that holds the bounds of two points, y overridden and x not
C14_Witness ==
    /\ Resolved
    /\ outcome = "drawn"
    /\ XyVals(req) = <<XyColor("red", <<<<0, 2>>, <<3, -1>>>>)>>
    /\ req.max_x = None /\ req.min_x = None /\ req.max_y = Some(1)
    /\ ResolvedBounds[1] = F(3) /\ ResolvedBounds[3] = F(0)

\* ------------------------------------------------------------------ C15
IsPrefix(p, q) == Len(p) <= Len(q) /\ SubSeq(q, 1, Len(p)) = p

\* what a step leaves alone once the driver of the live Plotter of slot s has
\* ended: nothing is consumed, no window is created, the queue only grows
LateTasksStay(s) ==
    /\ popped'[s] = popped[s]
    /\ windows'[s] = windows[s]
    /\ IsPrefix(task_queue[s], task_queue'[s])

\* C15: once the driver thread has ended, a task submitted through the live
\* Plotter is accepted and never consumed (the queue only grows, no window is
\* created) and the submitting call reports no error.  After a panic of the
\* driver inside add_window the queue's mutex is poisoned and plot2d panics.
C15_LateTasksAccepted ==
    [][\A s \in Slots :
          GuiEnded(s) /\ pc[s] = "live" => LateTasksStay(s) /\ pc'[s] # "aborted"]_vars

\* the part of C15 that holds whatever way the driver ended
C15_LateTasksNeverConsumed ==
    [][\A s \in Slots : GuiEnded(s) /\ pc[s] = "live" => LateTasksStay(s)]_vars

\* ------------------------------------------------------------------ C16
\* every window of the live set of slot s was drawn once in this cycle's redraw
AllDrawnOnce(s) ==
    /\ DOMAIN drawn[s] = DOMAIN windows[s]
    /\ \A id \in DOMAIN drawn[s] : drawn[s][id] = 1

\* the order of the phases of one cycle of the driver of slot s, as steps
CycleOrder(s) ==
    /\ gpc[s] = "events" /\ gpc'[s] # "events" =>
           /\ gpc'[s] \in {"drain", "exited"}
           /\ gpc'[s] = "drain" => events[s] = <<>>
    /\ gpc[s] = "drain" /\ gpc'[s] # "drain" =>
           /\ gpc'[s] \in {"add_window", "draw", "exited"}
           /\ gpc'[s] = "draw" => task_queue[captured[s]] = <<>> /\ task_queue' = task_queue
    /\ gpc[s] = "add_window" /\ gpc'[s] # "add_window" => gpc'[s] \in {"drain", "panicked"}
    /\ gpc[s] = "draw" /\ gpc'[s] # "draw" =>
           /\ gpc'[s] \in {"sleep", "panicked"}
           /\ windows'[s] = windows[s]
    /\ gpc[s] = "sleep" /\ gpc'[s] # "sleep" => gpc'[s] = "events"

\* C16: in each cycle that does not leave the loop the driver handles all
\* pending input events, then pops tasks until it finds the queue empty, then
\* redraws every window of the live set exactly once (unchanged ones and the
\* ones created in this cycle included), then sleeps: the drain ends only on
\* an empty queue, and while the driver sleeps every live window has been
\* drawn once and none before the redraw step.
C16_CycleOrder ==
    /\ [][\A s \in Slots : CycleOrder(s)]_vars
    /\ [](\A s \in Slots :
             /\ gpc[s] = "sleep" => AllDrawnOnce(s)
             /\ gpc[s] \in {"events", "drain", "add_window", "draw"} => drawn[s] = EmptyMap)

\* a cycle after the first one has come to its sleep with two live windows,
\* each drawn once
C16_Witness ==
    \E s \in Slots :
        /\ gpc[s] = "sleep"
        /\ ~first[s]
        /\ Cardinality(DOMAIN windows[s]) = 2
        /\ AllDrawnOnce(s)

\* ------------------------------------------------------------------ C17
\* the Render task number n is in the queue of slot s
Pending(s, n) ==
    \E i \in 1..Len(task_queue[s]) :
        task_queue[s][i].kind = "PlotTask" /\ task_queue[s][i].n = n
\* the live set of slot s holds the window made for the Render task number n
HasWindowOf(s, n) == \E id \in DOMAIN windows[s] : windows[s][id].task.n = n
TaskNumbers == 1..(MaxPush + 1)

\* C17 as claimed, its last part: the driver does not leave its loop on the
\* user's closing of the last open window while a Render task is pending in
\* the queue (so that every Render task pushed while the driver runs comes to
\* a window).  Line 71 breaks without looking at the queue.
C17_NoExitWhilePending ==
    [][\A s \in Slots :
          GuiRunning(s) /\ gpc'[s] = "exited" /\ brk'[s] = "closed" =>
              \A n \in TaskNumbers : ~Pending(captured[s], n)]_vars

\* a Render task leaves the queue of slot s only into the hands of the driver,
\* and the driver lets go of it only with its window in the live set, or by a
\* panic
ConsumedIntoWindow(s) ==
    /\ \A n \in TaskNumbers :
           GuiRunning(s) /\ Pending(s, n) /\ ~Pending(s, n)' =>
               gpc'[s] = "add_window" /\ cur'[s].n = n
    /\ gpc[s] = "add_window" /\ gpc'[s] # "add_window" =>
           \/ gpc'[s] = "panicked"
           \/ \E id \in DOMAIN windows'[s] : windows'[s][id].task.n = cur[s].n

\* C17 amended: every Render task that is in the queue while the driver runs
\* is consumed and has its window in the live set later on, unless the driver
\* thread ends first (a quit event, the closing of the last open window, a
\* panic, that of the task's own add_window included): again and again the
\* driver has ended or no Render task is pending, and a Render task leaves the
\* queue only to become a window or to end the driver by a panic.
C17_ConsumedUnlessEnded ==
    /\ [][\A s \in Slots : ConsumedIntoWindow(s)]_vars
    /\ \A s \in Slots :
           []<>(~GuiRunning(s) \/ \A n \in TaskNumbers : ~Pending(s, n))

\* the second Render task of a Plotter has its window, in a later cycle than
\* the first one
C17_Witness ==
    \E s \in Slots : GuiRunning(s) /\ ~first[s] /\ HasWindowOf(s, 2)

\* ------------------------------------------------------------------ C18
\* the driver of slot s handles the event at the head of its pump in this step
HandlesEvent(s) ==
    /\ gpc[s] = "events"
    /\ events[s] # <<>>
    /\ Len(events'[s]) < Len(events[s]) \/ gpc'[s] # "events"

\* a close or Escape event for a window id outside the live set changes
\* nothing and the driver stays in its loop
StaleEventFrame(s) ==
    /\ HandlesEvent(s)
    /\ Head(events[s]).kind = "EscapeOrClose"
    /\ Head(events[s]).window_id \notin DOMAIN windows[s]
    => windows'[s] = windows[s] /\ gpc'[s] = "events" /\ brk'[s] = brk[s]

\* with a Render task at the head of the queue the drain goes on to add_window
\* for it, whatever the live set holds
ConsumesRender(s) ==
    /\ gpc[s] = "drain"
    /\ gpc'[s] # "drain"
    /\ task_queue[captured[s]] # <<>>
    /\ Head(task_queue[captured[s]]).kind = "PlotTask"
    => gpc'[s] = "add_window" /\ cur'[s] = Head(task_queue[captured[s]])

\* the driver of slot s leaves its loop in this step, from an empty live set
ExitsFromEmpty(s) == GuiRunning(s) /\ DOMAIN windows[s] = {} /\ gpc'[s] = "exited"

\* C18 as claimed: the driver does not leave its loop because the live set is
\* empty: from its start without windows, and after a close or Escape event
\* for a window id that is not in the live set (which changes nothing), it
\* stays in the loop and consumes Render tasks until a Terminate is consumed
\* with the set empty.  A quit event ends the loop as well, so this fails.
C18_StaysUntilTerminate ==
    [][\A s \in Slots :
          /\ StaleEventFrame(s)
          /\ ConsumesRender(s)
          /\ ExitsFromEmpty(s) => brk'[s] = "terminate" /\ ConsumesTerminate(s)]_vars

\* C18 amended: ... until a Terminate is consumed with the set empty or a quit
\* event is handled.
C18_StaysUntilTerminateOrQuit ==
    [][\A s \in Slots :
          /\ StaleEventFrame(s)
          /\ ConsumesRender(s)
          /\ ExitsFromEmpty(s) =>
                 \/ brk'[s] = "terminate" /\ ConsumesTerminate(s)
                 \/ brk'[s] = "quit" /\ HandlesEvent(s) /\ Head(events[s]).kind = "Quit"]_vars

\* a driver past its first cycle whose only window was made from an empty
\* live set, with a close event for another window id waiting
C18_Witness ==
    \E s \in Slots :
        /\ GuiRunning(s)
        /\ ~first[s]
        /\ Cardinality(DOMAIN windows[s]) = 1
        /\ Len(popped[s]) = 1
        /\ events[s] # <<>>
        /\ Head(events[s]).kind = "EscapeOrClose"
        /\ Head(events[s]).window_id \notin DOMAIN windows[s]

\* ------------------------------------------------------------------ C19
\* the window has none of its plot data set
NoData(w) == w.xs = None /\ w.ys = None /\ w.colors = None /\ w.plot_bounds = None

\* C19: Window::draw on a window whose plot data has not been set is a no-op:
\* it does not panic (and so does not end the thread that calls it).  Line 120
\* unwraps self.xs, which Window::new sets to None.
C19_DrawWithoutDataIsNoOp == NoData(surface) => outcome # "draw_panicked"

\* ------------------------------------------------------------------ C20
\* the window has its series, colors and bounds set
HasData(w) == w.xs # None /\ w.ys # None /\ w.colors # None /\ w.plot_bounds # None

\* C20: in every reachable state every window of a driver's live set has its
\* series, colors and bounds set: a window is inserted only after draw_plots
\* set them, and nothing unsets them, so the redraw of a cycle meets no window
\* without data.
C20_LiveWindowsHaveData ==
    \A s \in Slots : \A id \in DOMAIN windows[s] : HasData(windows[s][id])

\* two live windows, both with data, after a redraw
C20_Witness ==
    \E s \in Slots :
        /\ gpc[s] = "sleep"
        /\ Cardinality(DOMAIN windows[s]) = 2
        /\ \A id \in DOMAIN windows[s] : HasData(windows[s][id])

====
